---- MODULE Spec2Model ----
(***************************************************************************)
(* A model of rolling-shutter: the file-mask parser and the sequence       *)
(* resolver (src/src/file_processing.rs), the band geometry and the        *)
(* compositing loop (src/src/image_processing.rs) and the top-level run    *)
(* (src/src/main.rs).                                                      *)
(*                                                                         *)
(* Strings are sequences of characters, a character being a one-symbol     *)
(* string.  Four specifications share the variables:                       *)
(*   SpecMask   parse_filemask applied to a mask                           *)
(*   SpecPaths  run's call of get_paths, the probing loop step by step     *)
(*   SpecBand   generage_subimage_coords applied to bounds/index/direction *)
(*   Spec       process_images over a frame sequence                       *)
(***************************************************************************)
EXTENDS Integers, Sequences, FiniteSets, TLC

VARIABLES
    build,            \* "debug" (overflow checks: a panic) or "release" (wrapping)
    \* ---- file_processing.rs / main.rs
    path_mode,        \* PathMode: [kind |-> "FileMask" | "Folder", s |-> string]
    fs,               \* the names for which PathBuf::exists() is true
    parsed,           \* what parse_filemask returned
    gp_pc,            \* position inside get_paths
    gp_i,             \* the loop variable i of get_paths
    gp_bound,         \* the value of 10u32.pow(mask.digits as u32)
    paths,            \* get_paths' vector `paths`; process_images' argument
    gp_result,        \* what get_paths returned
    \* ---- generage_subimage_coords
    bounds, index,    \* the arguments of the last call, direction apart
    band,             \* what the last call returned
    \* ---- process_images
    images,           \* file name -> what image::open gives for it
    direction, suppress_output, save_ok,
    pc,               \* position inside process_images
    i,                \* the enumerate() index of the loop
    cur_img,          \* the decoded frame (the name it was decoded from)
    next_img,         \* what image::open returned, not yet assigned to cur_img
    width, height,    \* the first frame's dimensions
    buf,              \* the output buffer, (x, y) -> pixel
    num_frames,       \* the progress bar's total
    progress,         \* units reported by frame_pb.inc()
    finished,         \* frame_pb.finish() was called
    done_msg,         \* "Done." was printed
    decoded,          \* the indices image::open was called on, in order
    composited,       \* the indices whose band was copied into buf
    stop,             \* why the loop ended
    copy_failed,      \* the index whose copy_from returned false, if any
    output,           \* what was saved at the output path
    result            \* what process_images (or run) returned

parseVars == <<path_mode, parsed>>
pathVars  == <<fs, gp_pc, gp_i, gp_bound, gp_result>>
bandVars  == <<bounds, index, band>>
inputVars == <<images, direction, suppress_output, save_ok>>
imgVars   == <<pc, i, cur_img, next_img, width, height, buf, num_frames, progress,
               finished, done_msg, decoded, composited, stop, copy_failed,
               output, result>>
vars == <<build, parseVars, pathVars, paths, bandVars, inputVars, imgVars>>

(***************************************************************************)
(* Bounds of the model.                                                    *)
(***************************************************************************)
MaxMaskLen == 4      \* masks of up to this many characters
MaxIdx     == 3      \* files exist only at sequence indices 0..MaxIdx
MaxDim     == 2      \* frame widths and heights are 1..MaxDim
MaxFrames  == 3      \* frame sequences of 1..MaxFrames frames
MaxBand    == 3      \* bounds widths/heights 0..MaxBand, indices beyond

None == [tag |-> "None"]

Min(a, b) == IF a <= b THEN a ELSE b

(***************************************************************************)
(* Characters.  The regex class \d is Unicode-aware (\p{Nd}), so it also   *)
(* matches decimal digits outside ASCII; UnicodeDigit stands for one.      *)
(***************************************************************************)
AsciiDigits == {"0", "1", "2", "3", "4", "5", "6", "7", "8", "9"}
UnicodeDigit == "ARABIC-INDIC DIGIT THREE"
Alphabet == {"%", "0", "1", "d", "f", UnicodeDigit}

IsDigit(c) == c \in AsciiDigits \cup {UnicodeDigit}

DigitValue(c) ==
    CASE c = "0" -> 0 [] c = "1" -> 1 [] c = "2" -> 2 [] c = "3" -> 3
      [] c = "4" -> 4 [] c = "5" -> 5 [] c = "6" -> 6 [] c = "7" -> 7
      [] c = "8" -> 8 [] c = "9" -> 9

DigitChar(n) ==
    CASE n = 0 -> "0" [] n = 1 -> "1" [] n = 2 -> "2" [] n = 3 -> "3"
      [] n = 4 -> "4" [] n = 5 -> "5" [] n = 6 -> "6" [] n = 7 -> "7"
      [] n = 8 -> "8" [] n = 9 -> "9"

\* usize::MAX of a 64-bit target, 18446744073709551615, digit by digit.
UsizeMaxDigits == <<1, 8, 4, 4, 6, 7, 4, 4, 0, 7, 3, 7, 0, 9, 5, 5, 1, 6, 1, 5>>

RECURSIVE StripZeros(_)
StripZeros(r) ==
    IF r # <<>> /\ Head(r) = "0" THEN StripZeros(Tail(r)) ELSE r

RECURSIVE DecimalValue(_)
DecimalValue(r) ==
    IF r = <<>> THEN 0
    ELSE 10 * DecimalValue(SubSeq(r, 1, Len(r) - 1)) + DigitValue(r[Len(r)])

\* r > usize::MAX for a 20-digit run without leading zeros.
RECURSIVE ExceedsUsize(_, _)
ExceedsUsize(r, k) ==
    IF k > Len(r) THEN FALSE
    ELSE IF DigitValue(r[k]) # UsizeMaxDigits[k]
         THEN DigitValue(r[k]) > UsizeMaxDigits[k]
         ELSE ExceedsUsize(r, k + 1)

(***************************************************************************)
(* str::parse::<usize>() on a digit run: an error for a character that is  *)
(* no ASCII digit and for a value above usize::MAX, else the value.        *)
(***************************************************************************)
ParseUsize(r) ==
    IF \E k \in 1..Len(r) : r[k] \notin AsciiDigits THEN [tag |-> "Err"]
    ELSE LET sig == StripZeros(r) IN
         IF Len(sig) > 20 \/ (Len(sig) = 20 /\ ExceedsUsize(sig, 1))
         THEN [tag |-> "Err"]
         ELSE [tag |-> "Ok", value |-> DecimalValue(sig)]

(***************************************************************************)
(* The regex %(0)?([\d]+)d.  A match at position p (1-based) is a "%"      *)
(* followed by a non-empty maximal run of digits followed by "d".  The     *)
(* group (0)? takes a leading "0" only when a digit is left for [\d]+.     *)
(***************************************************************************)
RECURSIVE RunLen(_, _)
RunLen(s, p) ==
    IF p <= Len(s) /\ IsDigit(s[p]) THEN 1 + RunLen(s, p + 1) ELSE 0

MatchesAt(s, p) ==
    /\ p <= Len(s)
    /\ s[p] = "%"
    /\ RunLen(s, p + 1) >= 1
    /\ p + RunLen(s, p + 1) + 1 <= Len(s)
    /\ s[p + RunLen(s, p + 1) + 1] = "d"

\* Mutant: the group (0)? keeps a leading "0" even when no digit is left for
\* the run.
CaptureAt_greedy_zero(s, p) ==
    LET n == RunLen(s, p + 1)
        zero == s[p + 1] = "0"
    IN [tag |-> "Some",
        start |-> p - 1,
        end |-> p + n + 1,
        group1 |-> zero,
        group2 |-> IF zero THEN SubSeq(s, p + 2, p + n)
                           ELSE SubSeq(s, p + 1, p + n)]

\* The capture of the match at p: start/end are 0-based byte offsets as in
\* mat.start() and mat.end().
CaptureAt(s, p) ==
    LET n == RunLen(s, p + 1)
        zero == s[p + 1] = "0" /\ n >= 2
    IN [tag |-> "Some",
        start |-> p - 1,
        end |-> p + n + 1,
        group1 |-> zero,
        group2 |-> IF zero THEN SubSeq(s, p + 2, p + n)
                           ELSE SubSeq(s, p + 1, p + n)]

\* The leftmost match starting at offset `from` (0-based) or later.
RECURSIVE FindMatch(_, _)
FindMatch(s, from) ==
    IF from >= Len(s) THEN None
    ELSE IF MatchesAt(s, from + 1) THEN CaptureAt(s, from + 1)
    ELSE FindMatch(s, from + 1)

Ok(v) == [tag |-> "Ok", value |-> v]
Err(kind) == [tag |-> "Err", kind |-> kind]
Panic == [tag |-> "Panic"]

FileMask(zero_padded, digits) == [zero_padded |-> zero_padded, digits |-> digits]

(***************************************************************************)
(* parse_filemask: the loop over re.captures_iter(&s), `from` being where  *)
(* the iterator resumes and `res` the variable `result`.                   *)
(***************************************************************************)
RECURSIVE CapturesLoop(_, _, _)
CapturesLoop(s, from, res) ==
    LET cap == FindMatch(s, from) IN
    IF cap = None
    THEN IF res = None THEN Err("NoFileMaskFound") ELSE Ok(res.value)
    ELSE IF res # None THEN Err("MultipleFileMasks")
    ELSE LET digits == ParseUsize(cap.group2) IN
         IF digits.tag = "Err" THEN Panic
         ELSE CapturesLoop(s, cap.end,
                  [tag |-> "Some",
                   value |-> <<SubSeq(s, 1, cap.start),
                               FileMask(cap.group1, digits.value),
                               SubSeq(s, cap.end + 1, Len(s))>>])

parse_filemask(s) == CapturesLoop(s, 0, None)

(***************************************************************************)
(* u32 arithmetic.  A u32 is kept as two 16-bit limbs, so that values up   *)
(* to 2^32 - 1 and the wrap-around at 2^32 are exact.                      *)
(***************************************************************************)
Limb == 65536

U32(n) == [hi |-> (n \div Limb) % Limb, lo |-> n % Limb]

\* `n as u32` for a usize n: the low 32 bits.
AsU32(n) == (n % Limb) + Limb * ((n \div Limb) % Limb)

\* a * 10 in u32: the wrapped product and whether it overflowed.
MulTen(a) ==
    LET lo10 == a.lo * 10
        hi10 == a.hi * 10 + (lo10 \div Limb)
    IN [value |-> [hi |-> hi10 % Limb, lo |-> lo10 % Limb],
        overflow |-> hi10 >= Limb]

\* 10u32.pow(exp): the wrapped power and whether a multiplication overflowed
\* (10^exp >= 2^32, that is exp >= 10).  `acc` is the product so far; once it
\* has wrapped to 0 (at 10^32) every further product is 0.
RECURSIVE PowLoop(_, _, _)
PowLoop(exp, acc, overflow) ==
    IF exp = 0 \/ acc = [hi |-> 0, lo |-> 0]
    THEN [value |-> acc, overflow |-> overflow]
    ELSE LET m == MulTen(acc) IN
         PowLoop(exp - 1, m.value, overflow \/ m.overflow)

Pow10(exp) == PowLoop(exp, U32(1), FALSE)

\* n < b for an index n and a u32 b.
LessU32(n, b) ==
    \/ (n \div Limb) < b.hi
    \/ (n \div Limb) = b.hi /\ (n % Limb) < b.lo

(***************************************************************************)
(* format!("{}{:0width$}{}", left, i, right, width = width)                *)
(***************************************************************************)
RECURSIVE Decimal(_)
Decimal(n) ==
    IF n < 10 THEN <<DigitChar(n)>>
    ELSE Decimal(n \div 10) \o <<DigitChar(n % 10)>>

RECURSIVE ZeroPad(_, _)
ZeroPad(r, w) == IF Len(r) >= w THEN r ELSE ZeroPad(<<"0">> \o r, w)

Format(left, n, right, w) == left \o ZeroPad(Decimal(n), w) \o right

Width(mask) == IF mask.zero_padded THEN mask.digits ELSE 0

\* The candidate file name of index n under a parsed mask <<left, mask, right>>.
FileName(pm, n) == Format(pm[1], n, pm[3], Width(pm[2]))

(***************************************************************************)
(* Initial values of the parts a specification does not use.               *)
(***************************************************************************)
IdleMask ==
    /\ path_mode = None
    /\ parsed = None

IdlePaths ==
    /\ fs = {}
    /\ gp_pc = "idle"
    /\ gp_i = 0
    /\ gp_bound = None
    /\ gp_result = None

IdleBand ==
    /\ bounds = <<>>
    /\ index = 0
    /\ band = None

IdleInputs ==
    /\ images = <<>>
    /\ direction = None
    /\ suppress_output = FALSE
    /\ save_ok = TRUE

IdleImg ==
    /\ pc = "idle"
    /\ i = 0
    /\ cur_img = None
    /\ next_img = None
    /\ width = 0
    /\ height = 0
    /\ buf = <<>>
    /\ num_frames = 0
    /\ progress = 0
    /\ finished = FALSE
    /\ done_msg = FALSE
    /\ decoded = <<>>
    /\ composited = {}
    /\ stop = None
    /\ copy_failed = None
    /\ output = None
    /\ result = None

(***************************************************************************)
(* SpecMask: parse_filemask applied to every mask of up to MaxMaskLen      *)
(* characters, and to a mask whose digit run exceeds usize::MAX.           *)
(***************************************************************************)
Masks == UNION {[1..n -> Alphabet] : n \in 0..MaxMaskLen}

HugeRun == [k \in 1..20 |-> "9"]
HugeMasks == {<<"%">> \o HugeRun \o <<"d">>,
              <<"f", "%", "0">> \o HugeRun \o <<"d">>,
              <<"%", "1", "d", "%">> \o HugeRun \o <<"d">>}

\* Masks whose digit run has leading zeros.
LeadingZeroMasks == {<<"f", "%", "0", "0", "7", "d">>,
                     <<"%", "0", "0", "0", "d", "f">>,
                     <<"%", "0", "0", "1", "0", "d">>}

InitMask ==
    /\ build \in {"debug", "release"}
    /\ path_mode \in {[kind |-> "FileMask", s |-> m] :
                        m \in Masks \cup HugeMasks \cup LeadingZeroMasks}
    /\ parsed = None
    /\ paths = <<>>
    /\ IdlePaths /\ IdleBand /\ IdleInputs /\ IdleImg

ParseFilemask ==
    /\ parsed = None
    /\ gp_pc = "idle"
    /\ path_mode # None
    /\ parsed' = parse_filemask(path_mode.s)
    /\ UNCHANGED <<build, path_mode, pathVars, paths, bandVars, inputVars, imgVars>>

NextMask == ParseFilemask

SpecMask == InitMask /\ [][NextMask]_vars

(***************************************************************************)
(* SpecPaths: run (main.rs) calling get_paths on a selector, over a        *)
(* filesystem in which the candidates of a set E of indices exist.         *)
(***************************************************************************)
\* The files of the indices E under mask s: none when s does not parse.
FilesAt(s, E) ==
    LET r == parse_filemask(s) IN
    IF r.tag = "Ok" THEN {FileName(r.value, n) : n \in E} ELSE {}

FolderPath == <<"f">>

\* What the existing files hold: each fails to decode or is a frame one pixel
\* wide and MaxDim high.
PathImages == {[ok |-> FALSE, w |-> 0, h |-> 0], [ok |-> TRUE, w |-> 1, h |-> MaxDim]}

InitPaths ==
    /\ build \in {"debug", "release"}
    /\ path_mode \in {[kind |-> "FileMask", s |-> m] : m \in Masks}
                     \cup {[kind |-> "Folder", s |-> FolderPath]}
    /\ fs \in IF path_mode.kind = "Folder"
              THEN SUBSET {FolderPath, <<"0">>, <<"f", "0">>}
              ELSE {FilesAt(path_mode.s, E) : E \in SUBSET (0..MaxIdx)}
    /\ images \in [fs -> PathImages]
    /\ direction = "N"
    /\ suppress_output = FALSE
    /\ save_ok = TRUE
    /\ parsed = None
    /\ gp_pc = "start"
    /\ gp_i = 0
    /\ gp_bound = None
    /\ gp_result = None
    /\ paths = <<>>
    /\ IdleBand /\ IdleImg

\* Mutant: a folder is taken for a sequence without files.
get_paths_folder_no_files(folder) == Err(<<"NoFilesFound">>)

\* get_paths on PathMode::Folder(_folder): bail!(ErrorKind::Unimplemented).
get_paths_folder(folder) == Err(<<"Unimplemented">>)

\* get_paths up to the loop: the match on path_mode, parse_filemask with its
\* chain_err, and the range 0..10u32.pow(mask.digits as u32).
GetPathsEnter ==
    /\ gp_pc = "start"
    /\ IF path_mode.kind = "Folder"
       THEN /\ gp_result' = get_paths_folder(path_mode.s)
            /\ gp_pc' = "done"
            /\ UNCHANGED <<parsed, gp_bound>>
       ELSE LET r == parse_filemask(path_mode.s) IN
            /\ parsed' = r
            /\ IF r.tag = "Panic"
               THEN /\ gp_result' = Panic
                    /\ gp_pc' = "done"
                    /\ UNCHANGED gp_bound
               ELSE IF r.tag = "Err"
               THEN /\ gp_result' = Err(<<"CouldNotParseFilemask", path_mode.s, r.kind>>)
                    /\ gp_pc' = "done"
                    /\ UNCHANGED gp_bound
               ELSE LET pw == Pow10(AsU32(r.value[2].digits)) IN
                    IF pw.overflow /\ build = "debug"
                    THEN /\ gp_result' = Panic
                         /\ gp_pc' = "done"
                         /\ UNCHANGED gp_bound
                    ELSE /\ gp_bound' = pw.value
                         /\ gp_pc' = IF LessU32(0, pw.value) THEN "loop" ELSE "after"
                         /\ UNCHANGED gp_result
    /\ UNCHANGED <<build, path_mode, fs, gp_i, paths, bandVars, inputVars, imgVars>>

\* Nothing was found so far and every existing file is a candidate already
\* probed: candidates of distinct indices differ, so each remaining iteration
\* of the loop finds no file and pushes nothing.
RestMisses ==
    /\ paths = <<>>
    /\ gp_i > MaxIdx
    /\ fs \subseteq {FileName(parsed.value, n) : n \in 0..(gp_i - 1)}

\* One iteration of `for i in 0..10u32.pow(..)`.
Probe ==
    /\ gp_pc = "loop"
    /\ ~RestMisses
    /\ LET buffer == FileName(parsed.value, gp_i)
           exists == buffer \in fs
           break == ~exists /\ paths # <<>>
       IN /\ paths' = IF exists THEN Append(paths, buffer) ELSE paths
          /\ gp_i' = gp_i + 1
          /\ gp_pc' = IF break \/ ~LessU32(gp_i + 1, gp_bound) THEN "after" ELSE "loop"
    /\ UNCHANGED <<build, parseVars, fs, gp_bound, gp_result, bandVars, inputVars, imgVars>>

\* The remaining iterations at once, when all of them miss: the loop runs to
\* the end of its range with `paths` still empty.
ProbeRest ==
    /\ gp_pc = "loop"
    /\ RestMisses
    /\ gp_pc' = "after"
    /\ UNCHANGED <<build, parseVars, fs, gp_i, gp_bound, gp_result, paths,
                   bandVars, inputVars, imgVars>>

\* After the loop: NoFilesFound for an empty vector, else the vector.
GetPathsReturn ==
    /\ gp_pc = "after"
    /\ gp_result' = IF paths = <<>> THEN Err(<<"NoFilesFound">>) ELSE Ok(paths)
    /\ gp_pc' = "done"
    /\ UNCHANGED <<build, parseVars, fs, gp_i, gp_bound, paths, bandVars, inputVars, imgVars>>

\* run: get_paths(..).chain_err(|| CouldNotGetPaths)?, then process_images
\* is called with the vector.
RunAfterGetPaths ==
    /\ gp_pc = "done"
    /\ pc = "idle"
    /\ IF gp_result.tag = "Ok"
       THEN /\ pc' = "start"
            /\ UNCHANGED result
       ELSE /\ pc' = "done"
            /\ result' = IF gp_result.tag = "Panic" THEN Panic
                         ELSE Err(<<"CouldNotGetPaths">> \o gp_result.kind)
    /\ UNCHANGED <<build, parseVars, pathVars, paths, bandVars, inputVars,
                   i, cur_img, next_img, width, height, buf, num_frames, progress, finished,
                   done_msg, decoded, composited, stop, copy_failed, output>>

(***************************************************************************)
(* Band geometry: generage_subimage_coords.  Some(rect) or None, rect being *)
(* <<x, y, width, height>>.                                                *)
(***************************************************************************)
Directions == {"N", "E", "S", "W"}

Some(v) == [tag |-> "Some", value |-> v]
Pending == [tag |-> "Pending"]

\* Mutant: the exhaustion test is `index > dimension` (off by one).
generage_subimage_coords_off_by_one(b, idx, d) ==
    LET bx == b[1]
        by == b[2]
        bw == b[3]
        bh == b[4]
    IN CASE d = "N" -> IF idx > bh THEN None ELSE Some(<<bx, by + idx, bw, 1>>)
         [] d = "S" -> IF idx > bh THEN None ELSE Some(<<bx, by + bh - idx - 1, bw, 1>>)
         [] d = "W" -> IF idx > bw THEN None ELSE Some(<<bx + idx, by, 1, bh>>)
         [] d = "E" -> IF idx > bw THEN None ELSE Some(<<bx + bw - idx - 1, by, 1, bh>>)

\* Mutant: S and E forget the `- 1`.
generage_subimage_coords_no_minus_one(b, idx, d) ==
    LET bx == b[1]
        by == b[2]
        bw == b[3]
        bh == b[4]
    IN CASE d = "N" -> IF idx >= bh THEN None ELSE Some(<<bx, by + idx, bw, 1>>)
         [] d = "S" -> IF idx >= bh THEN None ELSE Some(<<bx, by + bh - idx, bw, 1>>)
         [] d = "W" -> IF idx >= bw THEN None ELSE Some(<<bx + idx, by, 1, bh>>)
         [] d = "E" -> IF idx >= bw THEN None ELSE Some(<<bx + bw - idx, by, 1, bh>>)

\* Mutant: N and S test the index against the width, W and E against the height.
generage_subimage_coords_swapped(b, idx, d) ==
    LET bx == b[1]
        by == b[2]
        bw == b[3]
        bh == b[4]
    IN CASE d = "N" -> IF idx >= bw THEN None ELSE Some(<<bx, by + idx, bw, 1>>)
         [] d = "S" -> IF idx >= bw THEN None ELSE Some(<<bx, by + bh - idx - 1, bw, 1>>)
         [] d = "W" -> IF idx >= bh THEN None ELSE Some(<<bx + idx, by, 1, bh>>)
         [] d = "E" -> IF idx >= bh THEN None ELSE Some(<<bx + bw - idx - 1, by, 1, bh>>)

\* Mutant: N and S give the band the height of the bounds, W and E the width.
generage_subimage_coords_thick(b, idx, d) ==
    LET bx == b[1]
        by == b[2]
        bw == b[3]
        bh == b[4]
    IN CASE d = "N" -> IF idx >= bh THEN None ELSE Some(<<bx, by + idx, bw, bh>>)
         [] d = "S" -> IF idx >= bh THEN None ELSE Some(<<bx, by + bh - idx - 1, bw, bh>>)
         [] d = "W" -> IF idx >= bw THEN None ELSE Some(<<bx + idx, by, bw, bh>>)
         [] d = "E" -> IF idx >= bw THEN None ELSE Some(<<bx + bw - idx - 1, by, bw, bh>>)

generage_subimage_coords(b, idx, d) ==
    LET bx == b[1]
        by == b[2]
        bw == b[3]
        bh == b[4]
    IN CASE d = "N" -> IF idx >= bh THEN None ELSE Some(<<bx, by + idx, bw, 1>>)
         [] d = "S" -> IF idx >= bh THEN None ELSE Some(<<bx, by + bh - idx - 1, bw, 1>>)
         [] d = "W" -> IF idx >= bw THEN None ELSE Some(<<bx + idx, by, 1, bh>>)
         [] d = "E" -> IF idx >= bw THEN None ELSE Some(<<bx + bw - idx - 1, by, 1, bh>>)

(***************************************************************************)
(* SpecBand: generage_subimage_coords applied to bounds at several         *)
(* offsets, of widths and heights 0..MaxBand, and to indices inside and    *)
(* beyond them.                                                            *)
(***************************************************************************)
Offsets == {0, 3, 4, 1000}

InitBand ==
    /\ build = "release"
    /\ bounds \in Offsets \X Offsets \X (0..MaxBand) \X (0..MaxBand)
    /\ index \in 0..(MaxBand + 2)
    /\ direction \in Directions
    /\ band = Pending
    /\ images = <<>>
    /\ suppress_output = FALSE
    /\ save_ok = TRUE
    /\ paths = <<>>
    /\ IdleMask /\ IdlePaths /\ IdleImg

GenerateSubimageCoords ==
    /\ band = Pending
    /\ bounds # <<>>
    /\ band' = generage_subimage_coords(bounds, index, direction)
    /\ UNCHANGED <<build, parseVars, pathVars, paths, bounds, index, inputVars, imgVars>>

NextBand == GenerateSubimageCoords

SpecBand == InitBand /\ [][NextBand]_vars

(***************************************************************************)
(* Images.  A decoded image is [name, w, h]; its pixel at (x, y) is the     *)
(* value Pixel(name, x, y), which names where it comes from.  The output   *)
(* buffer is [w, h, px], px a function from <<x, y>> to a pixel.           *)
(***************************************************************************)
ZeroPixel == [src |-> <<>>, x |-> 0, y |-> 0]

Pixel(name, x, y) == [src |-> name, x |-> x, y |-> y]

\* ImageBuffer::new(w, h): every pixel zero.
NewBuffer(w, h) ==
    [w |-> w, h |-> h,
     px |-> [c \in (0..(w - 1)) \X (0..(h - 1)) |-> ZeroPixel]]

\* GenericImage::bounds of a decoded image.
Bounds(img) == <<0, 0, img.w, img.h>>

\* Mutant: the sub-image is copied to the buffer's origin, not to (x, y).
copy_from_origin(buffer, img, rect) ==
    LET x == rect[1]
        y == rect[2]
        w == rect[3]
        h == rect[4]
    IN IF buffer.w < w \/ buffer.h < h
       THEN [copied |-> FALSE, buf |-> buffer]
       ELSE [copied |-> TRUE,
             buf |-> [buffer EXCEPT !.px =
                 [c \in DOMAIN buffer.px |->
                     IF c[1] < w /\ c[2] < h
                     THEN Pixel(img.name, c[1] + x, c[2] + y)
                     ELSE buffer.px[c]]]]

\* current_buffer.copy_from(&image.sub_image(x, y, w, h), x, y): false, and
\* nothing copied, when the sub-image placed at (x, y) does not fit inside the
\* buffer; else every pixel of the sub-image is put at the same coordinates.
copy_from(buffer, img, rect) ==
    LET x == rect[1]
        y == rect[2]
        w == rect[3]
        h == rect[4]
    IN IF buffer.w < w + x \/ buffer.h < h + y
       THEN [copied |-> FALSE, buf |-> buffer]
       ELSE [copied |-> TRUE,
             buf |-> [buffer EXCEPT !.px =
                 [c \in DOMAIN buffer.px |->
                     IF /\ x <= c[1] /\ c[1] < x + w
                        /\ y <= c[2] /\ c[2] < y + h
                     THEN Pixel(img.name, c[1], c[2])
                     ELSE buffer.px[c]]]]

\* Mutant: Ok(true) also when there is no band left.
process_image_never_false(buffer, img, idx, d) ==
    LET call == [bounds |-> Bounds(img), index |-> AsU32(idx)]
        coords == generage_subimage_coords(call.bounds, call.index, d)
    IN IF coords # None
       THEN LET c == copy_from(buffer, img, coords.value) IN
            [result |-> Ok(c.copied), buf |-> c.buf, failed |-> ~c.copied,
             call |-> call, coords |-> coords]
       ELSE [result |-> Ok(TRUE), buf |-> buffer, failed |-> FALSE,
             call |-> call, coords |-> coords]

\* process_image: Ok(bool) and the buffer it leaves; it never returns Err.
\* `failed` records that copy_from was called and returned false, `call` the
\* arguments generage_subimage_coords was called with and `coords` its result.
process_image(buffer, img, idx, d) ==
    LET call == [bounds |-> Bounds(img), index |-> AsU32(idx)]
        coords == generage_subimage_coords(call.bounds, call.index, d)
    IN IF coords # None
       THEN LET c == copy_from(buffer, img, coords.value) IN
            [result |-> Ok(c.copied), buf |-> c.buf, failed |-> ~c.copied,
             call |-> call, coords |-> coords]
       ELSE [result |-> Ok(FALSE), buf |-> buffer, failed |-> FALSE,
             call |-> call, coords |-> coords]

(***************************************************************************)
(* Spec: process_images over 1..MaxFrames frames named f0, f1, ..  Each    *)
(* file either fails to decode or decodes to an image of a width and a     *)
(* height in 1..MaxDim; the save of the output succeeds or fails.          *)
(***************************************************************************)
FrameName(k) == Format(<<"f">>, k, <<>>, 0)

Undecodable == [ok |-> FALSE, w |-> 0, h |-> 0]

ImageFiles ==
    {Undecodable} \cup {[ok |-> TRUE, w |-> w, h |-> h] : w, h \in 1..MaxDim}

\* Mutant: the error carries the path of the first frame.
Open_first_path(path) ==
    IF images[path].ok
    THEN Ok([name |-> path, w |-> images[path].w, h |-> images[path].h])
    ELSE Err(<<"CouldNotOpenImage", paths[1]>>)

\* image::open(path)
Open(path) ==
    IF images[path].ok
    THEN Ok([name |-> path, w |-> images[path].w, h |-> images[path].h])
    ELSE Err(<<"CouldNotOpenImage", path>>)

Init ==
    /\ build = "release"
    /\ \E n \in 1..MaxFrames :
          /\ paths = [k \in 1..n |-> FrameName(k - 1)]
          /\ images \in [{FrameName(k) : k \in 0..(n - 1)} -> ImageFiles]
    /\ direction \in Directions
    /\ suppress_output \in BOOLEAN
    /\ save_ok \in BOOLEAN
    /\ pc = "start"
    /\ i = 0
    /\ cur_img = None
    /\ next_img = None
    /\ width = 0
    /\ height = 0
    /\ buf = <<>>
    /\ num_frames = 0
    /\ progress = 0
    /\ finished = FALSE
    /\ done_msg = FALSE
    /\ decoded = <<>>
    /\ composited = {}
    /\ stop = None
    /\ copy_failed = None
    /\ output = None
    /\ result = None
    /\ IdleMask /\ IdlePaths /\ IdleBand

\* Lines 84-103: the first frame is opened, the buffer allocated with its
\* dimensions, the progress bar created.
OpenFirst ==
    /\ pc = "start"
    /\ LET first_path == paths[1]
           opened == Open(first_path)
       IN /\ decoded' = Append(decoded, 0)
          /\ IF opened.tag = "Err"
             THEN /\ result' = opened
                  /\ pc' = "done"
                  /\ UNCHANGED <<cur_img, width, height, buf, num_frames>>
             ELSE /\ cur_img' = opened.value
                  /\ width' = opened.value.w
                  /\ height' = opened.value.h
                  /\ buf' = NewBuffer(opened.value.w, opened.value.h)
                  /\ num_frames' = Min(Len(paths),
                                       IF direction \in {"N", "S"}
                                       THEN opened.value.h ELSE opened.value.w)
                  /\ pc' = "process"
                  /\ UNCHANGED result
    /\ UNCHANGED <<build, parseVars, pathVars, paths, bandVars, inputVars,
                   i, next_img, progress, finished, done_msg, composited, stop,
                   copy_failed, output>>

\* Line 107, right-hand side: for i > 0 image::open decodes the frame of
\* index i while cur_img still holds the frame before it.
OpenNext ==
    /\ pc = "open"
    /\ LET path == paths[i + 1] IN
       /\ decoded' = Append(decoded, i)
       /\ next_img' = Open(path)
       /\ pc' = "assign"
    /\ UNCHANGED <<build, parseVars, pathVars, paths, bandVars, inputVars,
                   i, cur_img, width, height, buf, num_frames, progress, finished,
                   done_msg, composited, stop, copy_failed, output, result>>

\* Mutant: the frame is copied into cur_img and the temporary kept.
AssignFrame_keeps_temporary ==
    /\ pc = "assign"
    /\ IF next_img.tag = "Err"
       THEN /\ result' = next_img
            /\ pc' = "done"
            /\ UNCHANGED cur_img
       ELSE /\ cur_img' = next_img.value
            /\ pc' = "process"
            /\ UNCHANGED result
    /\ UNCHANGED next_img
    /\ UNCHANGED <<build, parseVars, pathVars, paths, bandVars, inputVars,
                   i, width, height, buf, num_frames, progress, finished,
                   done_msg, decoded, composited, stop, copy_failed, output>>

\* Line 107, `?` and the assignment: an error is returned, else the decoded
\* frame is moved into cur_img, which drops the frame it held.
AssignFrame ==
    /\ pc = "assign"
    /\ IF next_img.tag = "Err"
       THEN /\ result' = next_img
            /\ pc' = "done"
            /\ UNCHANGED cur_img
       ELSE /\ cur_img' = next_img.value
            /\ pc' = "process"
            /\ UNCHANGED result
    /\ next_img' = None
    /\ UNCHANGED <<build, parseVars, pathVars, paths, bandVars, inputVars,
                   i, width, height, buf, num_frames, progress, finished,
                   done_msg, decoded, composited, stop, copy_failed, output>>

\* Lines 109-120: process_image on the frame of index i, then one unit of
\* progress and the next iteration, or the break.
ProcessFrame ==
    /\ pc = "process"
    /\ LET path == paths[i + 1]
           r == process_image(buf, cur_img, i, direction)
       IN /\ buf' = r.buf
          /\ bounds' = r.call.bounds
          /\ index' = r.call.index
          /\ band' = r.coords
          /\ copy_failed' = IF r.failed THEN Some(i) ELSE copy_failed
          /\ IF r.result.tag = "Err"
             THEN /\ result' = Err(<<"CouldNotProcessImage", path>>)
                  /\ pc' = "done"
                  /\ UNCHANGED <<i, progress, composited, stop>>
             ELSE IF r.result.value
             THEN /\ composited' = composited \cup {i}
                  /\ progress' = IF suppress_output THEN progress ELSE progress + 1
                  /\ i' = i + 1
                  /\ IF i + 1 < Len(paths)
                     THEN pc' = "open" /\ UNCHANGED stop
                     ELSE pc' = "save" /\ stop' = [tag |-> "SequenceEnd"]
                  /\ UNCHANGED result
             ELSE /\ stop' = [tag |-> "Break", index |-> i]
                  /\ pc' = "save"
                  /\ UNCHANGED <<i, progress, composited, result>>
    /\ UNCHANGED <<build, parseVars, pathVars, paths, inputVars,
                   cur_img, next_img, width, height, num_frames, finished, done_msg,
                   decoded, output>>

\* Lines 123-134: the progress bar is finished, the buffer saved.
SaveOutput ==
    /\ pc = "save"
    /\ finished' = ~suppress_output
    /\ IF save_ok
       THEN /\ output' = Some(buf)
            /\ done_msg' = ~suppress_output
            /\ result' = Ok(<<>>)
       ELSE /\ result' = Err(<<"CouldNotSaveOutput">>)
            /\ UNCHANGED <<output, done_msg>>
    /\ pc' = "done"
    /\ UNCHANGED <<build, parseVars, pathVars, paths, bandVars, inputVars,
                   i, cur_img, next_img, width, height, buf, num_frames, progress,
                   decoded, composited, stop, copy_failed>>

Next ==
    \/ OpenFirst
    \/ OpenNext
    \/ AssignFrame
    \/ ProcessFrame
    \/ SaveOutput

Spec == Init /\ [][Next]_vars

\* process_images is sequential code: a step that can be taken is taken.
FairSpec == Spec /\ WF_vars(Next)

(***************************************************************************)
(* SpecPaths, continued: the whole of run, get_paths and then               *)
(* process_images over the paths it returned.                              *)
(***************************************************************************)
NextPaths ==
    \/ GetPathsEnter
    \/ Probe
    \/ ProbeRest
    \/ GetPathsReturn
    \/ RunAfterGetPaths
    \/ OpenFirst
    \/ OpenNext
    \/ AssignFrame
    \/ ProcessFrame
    \/ SaveOutput

SpecPaths == InitPaths /\ [][NextPaths]_vars

(***************************************************************************)
(* Claims about parse_filemask (SpecMask).                                 *)
(***************************************************************************)
\* The placeholder pattern of the specification at position p of s: a percent
\* sign, an optional 0, one or more digits, the letter d.
PlaceholderAt(s, p) ==
    /\ s[p] = "%"
    /\ \E n \in 1..(Len(s) - p) :
          /\ \A k \in 1..n : IsDigit(s[p + k])
          /\ p + n + 1 <= Len(s)
          /\ s[p + n + 1] = "d"

Placeholders(s) == {p \in 1..Len(s) : PlaceholderAt(s, p)}

\* The end (1-based, inclusive) of the placeholder that starts at p.
PlaceholderEnd(s, p) == CHOOSE e \in (p + 2)..Len(s) :
    /\ s[e] = "d"
    /\ \A k \in (p + 1)..(e - 1) : IsDigit(s[k])

\* C6: parse_filemask succeeds if and only if the mask holds exactly one
\* placeholder, and then returns the text before it as prefix and the text
\* after it as suffix; with none it fails with NoFileMaskFound, with two or
\* more with MultipleFileMasks.
C6_ParseIffExactlyOne ==
    parsed # None =>
        LET s == path_mode.s
            n == Cardinality(Placeholders(s))
        IN /\ (parsed.tag = "Ok") <=> (n = 1)
           /\ n = 1 =>
                LET p == CHOOSE q \in Placeholders(s) : TRUE IN
                /\ parsed.tag = "Ok"
                /\ parsed.value[1] = SubSeq(s, 1, p - 1)
                /\ parsed.value[3] = SubSeq(s, PlaceholderEnd(s, p) + 1, Len(s))
           /\ n = 0 => parsed = Err("NoFileMaskFound")
           /\ n >= 2 => parsed = Err("MultipleFileMasks")

\* C10: every placeholder specification a successful parse_filemask produces
\* has digits >= 1.
C10_DigitsPositive ==
    (parsed # None /\ parsed.tag = "Ok") => parsed.value[2].digits >= 1

\* The mask rebuilt from a parse result <<prefix, FileMask, suffix>>.
Rebuilt(v) ==
    v[1] \o <<"%">> \o (IF v[2].zero_padded THEN <<"0">> ELSE <<>>)
         \o Decimal(v[2].digits) \o <<"d">> \o v[3]

\* The digit run of the mask s that a parse result v stands for: what lies
\* between the prefix, the "%" and the pad "0", and the "d" and the suffix.
DigitRun(s, v) ==
    SubSeq(s, Len(v[1]) + 2 + (IF v[2].zero_padded THEN 1 ELSE 0),
              Len(s) - Len(v[3]) - 1)

\* A digit run that is the decimal numeral of its value.
IsNumeral(r) == Len(r) >= 1 /\ (Len(r) = 1 \/ r[1] # "0")

\* C11 as stated: whenever parse_filemask returns (prefix, {zero_padded,
\* digits}, suffix), prefix + "%" + ("0" if zero_padded) + decimal(digits) +
\* "d" + suffix is the original mask, leading zeros of the run included.
C11_RoundTrip ==
    (parsed # None /\ parsed.tag = "Ok") => Rebuilt(parsed.value) = path_mode.s

\* C11 amended: the mask is prefix + "%" + ("0" if zero_padded) + run + "d" +
\* suffix for a non-empty digit run, digits is the value of the run, and the
\* rebuilt mask equals the original exactly when the run is the decimal
\* numeral of digits, that is when it has no leading zero.
C11_RoundTripUpToLeadingZeros ==
    (parsed # None /\ parsed.tag = "Ok") =>
        LET s == path_mode.s
            v == parsed.value
            run == DigitRun(s, v)
        IN /\ s = v[1] \o <<"%">> \o (IF v[2].zero_padded THEN <<"0">> ELSE <<>>)
                       \o run \o <<"d">> \o v[3]
           /\ Len(run) >= 1
           /\ \A k \in 1..Len(run) : run[k] \in AsciiDigits
           /\ v[2].digits = DecimalValue(run)
           /\ (Rebuilt(v) = s) <=> IsNumeral(run)

C11_Witness ==
    /\ parsed # None
    /\ parsed.tag = "Ok"
    /\ path_mode.s = <<"f", "%", "0", "0", "7", "d">>
    /\ parsed.value = <<<<"f">>, FileMask(TRUE, 7), <<>>>>

(***************************************************************************)
(* Claims about get_paths (SpecPaths).                                     *)
(***************************************************************************)
RECURSIVE TenTo(_)
TenTo(d) == IF d = 0 THEN 1 ELSE 10 * TenTo(d - 1)

\* n is a candidate index of the parsed mask: n is in 0..10^digits - 1.
IsCandidate(n) ==
    LET d == parsed.value[2].digits IN d >= 10 \/ n < TenTo(d)

\* The candidate indices whose file exists (none lies above MaxIdx).
ExistingCandidates ==
    {n \in 0..MaxIdx : IsCandidate(n) /\ FileName(parsed.value, n) \in fs}

SetMin(S) == CHOOSE m \in S : \A n \in S : m <= n
SetMax(S) == CHOOSE m \in S : \A n \in S : n <= m

\* The names of m, m+1, .., k: m the smallest index of E, k the largest
\* index with every index from m to k in E.
FirstRun(E) ==
    LET m == SetMin(E)
        k == SetMax({j \in E : \A n \in m..j : n \in E})
    IN [n \in 1..(k - m + 1) |-> FileName(parsed.value, m + n - 1)]

GetPathsReturned ==
    /\ gp_pc = "done"
    /\ path_mode.kind = "FileMask"
    /\ parsed.tag = "Ok"

\* C1: for a mask with one placeholder and existing candidate indices E,
\* get_paths returns exactly the files of the first contiguous run of E, in
\* increasing order: indices missing before the run are skipped and nothing
\* after the first gap is returned.
C1_FirstContiguousRun ==
    (GetPathsReturned /\ ExistingCandidates # {}) =>
        gp_result = Ok(FirstRun(ExistingCandidates))

\* C7: for a parseable mask get_paths fails with NoFilesFound if and only if
\* no candidate index has an existing file; every list it returns is
\* non-empty, and process_images is never called with an empty sequence.
C7_NoFilesFoundIffNone ==
    /\ GetPathsReturned =>
          /\ (gp_result = Err(<<"NoFilesFound">>)) <=> (ExistingCandidates = {})
          /\ gp_result.tag = "Ok" => gp_result.value # <<>>
    /\ pc = "start" => paths # <<>>

\* The range 10u32.pow(digits) is computed without overflow.
NoRangeOverflow == ~Pow10(AsU32(parsed.value[2].digits)).overflow

\* What holds of get_paths for the masks whose range does not overflow.
FirstRunWithoutOverflow ==
    (GetPathsReturned /\ NoRangeOverflow) =>
        /\ ExistingCandidates # {} => gp_result = Ok(FirstRun(ExistingCandidates))
        /\ ExistingCandidates = {} => gp_result = Err(<<"NoFilesFound">>)

C8_BandFormula ==
    band # Pending =>
        LET bx == bounds[1]
            by == bounds[2]
            bw == bounds[3]
            bh == bounds[4]
        IN /\ (band = None) <=>
                 (IF direction \in {"N", "S"} THEN index >= bh ELSE index >= bw)
           /\ band # None =>
                 band.value =
                    CASE direction = "N" -> <<bx, by + index, bw, 1>>
                      [] direction = "S" -> <<bx, by + bh - index - 1, bw, 1>>
                      [] direction = "W" -> <<bx + index, by, 1, bh>>
                      [] direction = "E" -> <<bx + bw - index - 1, by, 1, bh>>

C8_Witness ==
    /\ band = Some(<<3, 5, 3, 1>>)
    /\ bounds = <<3, 4, 3, 3>>
    /\ index = 1
    /\ direction = "S"

\* C9: for a valid index i the band of (i, North) is the band of
\* (bh - 1 - i, South), and the band of (i, West) is the band of
\* (bw - 1 - i, East).
C9_MirrorSymmetry ==
    band # Pending =>
        /\ (direction = "N" /\ index < bounds[4]) =>
              /\ band # None
              /\ band = generage_subimage_coords(bounds, bounds[4] - 1 - index, "S")
        /\ (direction = "W" /\ index < bounds[3]) =>
              /\ band # None
              /\ band = generage_subimage_coords(bounds, bounds[3] - 1 - index, "E")

C9_Witness ==
    /\ band # Pending
    /\ band # None
    /\ direction = "W"
    /\ index = 0
    /\ bounds[3] = 3

(***************************************************************************)
(* Claims about process_images (Spec).                                     *)
(***************************************************************************)
FirstW == images[paths[1]].w
FirstH == images[paths[1]].h

\* Every frame decodes and has the first frame's dimensions.
SameSize ==
    \A k \in 1..Len(paths) :
        /\ images[paths[k]].ok
        /\ images[paths[k]].w = FirstW
        /\ images[paths[k]].h = FirstH

\* The scan limit and the number of usable frames, from the first frame.
FirstLimit == IF direction \in {"N", "S"} THEN FirstH ELSE FirstW
Usable == Min(Len(paths), FirstLimit)

\* The coordinate c lies in band k of the first frame's extent.
InBand(c, k) ==
    CASE direction = "N" -> c[2] = k
      [] direction = "S" -> c[2] = FirstH - 1 - k
      [] direction = "W" -> c[1] = k
      [] direction = "E" -> c[1] = FirstW - 1 - k

\* The buffer b holds frame k's pixels all over band k.
HoldsBand(b, k) ==
    \A c \in (0..(FirstW - 1)) \X (0..(FirstH - 1)) :
        InBand(c, k) =>
            c \in DOMAIN b.px /\ b.px[c] = Pixel(FrameName(k), c[1], c[2])

Counted(n) == [j \in 1..n |-> j - 1]

\* C2 as stated: with more frames than the scan limit L, exactly L bands
\* are composited and no frame of index >= L is ever decoded.
C2_FrameAtLimitNeverDecoded ==
    (pc # "start" /\ SameSize /\ Len(paths) > FirstLimit) =>
        /\ \A j \in 1..Len(decoded) : decoded[j] < FirstLimit
        /\ pc = "done" => composited = 0..(FirstLimit - 1)

\* C2 amended: when the loop breaks at index b, the frames decoded are
\* exactly 0..b (frame b was opened before its band was computed), the bands
\* composited are exactly 0..b-1, and nothing of a later index is decoded or
\* composited; with n > L frames of the first frame's dimensions the break
\* is the scan exhaustion at b = L.
C2_StopsAfterDecodingFrameAtLimit ==
    /\ stop.tag = "Break" =>
          /\ decoded = Counted(stop.index + 1)
          /\ composited = 0..(stop.index - 1)
          /\ pc \in {"save", "done"}
    /\ (pc \in {"save", "done"} /\ SameSize /\ Len(paths) > FirstLimit) =>
          /\ stop = [tag |-> "Break", index |-> FirstLimit]
          /\ copy_failed = None
          /\ decoded = Counted(FirstLimit + 1)
          /\ composited = 0..(FirstLimit - 1)

C2_Witness ==
    /\ pc = "done"
    /\ SameSize
    /\ Len(paths) = 3
    /\ direction = "W"
    /\ FirstW = 2
    /\ decoded = <<0, 1, 2>>
    /\ composited = {0, 1}
    /\ result.tag = "Ok"

\* C3: with frames that all have the first frame's dimensions, a successful
\* run writes an output of those dimensions in which band k holds frame k's
\* pixels for every k < min(n, scan limit), and every other pixel is zero.
C3_BandsCopied ==
    (pc = "done" /\ result.tag = "Ok" /\ SameSize) =>
        /\ output.tag = "Some"
        /\ output.value.w = FirstW
        /\ output.value.h = FirstH
        /\ DOMAIN output.value.px = (0..(FirstW - 1)) \X (0..(FirstH - 1))
        /\ \A k \in 0..(Usable - 1) : HoldsBand(output.value, k)
        /\ \A c \in DOMAIN output.value.px :
              (\A k \in 0..(Usable - 1) : ~InBand(c, k)) =>
                  output.value.px[c] = ZeroPixel

C3_Witness ==
    /\ pc = "done"
    /\ result.tag = "Ok"
    /\ SameSize
    /\ Len(paths) = 1
    /\ direction = "S"
    /\ FirstW = 2
    /\ FirstH = 2
    /\ output.value.px[<<1, 1>>] = Pixel(FrameName(0), 1, 1)
    /\ output.value.px[<<1, 0>>] = ZeroPixel

\* C4: a finished run either succeeded with an output holding a composited
\* band for every index below min(n, scan limit), or failed with nothing
\* written.
C4_CompleteOrNothing ==
    pc = "done" =>
        \/ /\ result.tag = "Ok"
           /\ output.tag = "Some"
           /\ \A k \in 0..(Usable - 1) : HoldsBand(output.value, k)
        \/ /\ result.tag = "Err"
           /\ output = None

\* C5: a run in which a band copy failed ends with CouldNotProcessImage
\* carrying the path of the frame whose copy failed.
C5_CopyFailureIsError ==
    (pc = "done" /\ copy_failed # None) =>
        result = Err(<<"CouldNotProcessImage", paths[copy_failed.value + 1]>>)

\* The index at which the loop stopped: that of the break, or the length of
\* the sequence when the iterator ran out.
StopIndex == IF stop.tag = "Break" THEN stop.index ELSE Len(paths)

\* The loop has ended without a decode error.
LoopEnded == stop # None

\* The bounds the band geometry is asked with at index k: those of frame k.
FrameBounds(k) == <<0, 0, images[paths[k + 1]].w, images[paths[k + 1]].h>>

\* The first index at which the band geometry gives no band, or the length
\* of the sequence if there is none.
FirstExhausted ==
    LET n == Len(paths)
        ex == {k \in 0..(n - 1) :
                 generage_subimage_coords(FrameBounds(k), k, direction) = None}
    IN IF ex = {} THEN n ELSE SetMin(ex)

\* In a run without decode or copy error the loop stops at the first index
\* that is the length of the sequence or at which the band geometry gives no
\* band; every index below it was composited, and the output is then saved.
StopsAtFirstExhaustion ==
    (LoopEnded /\ copy_failed = None) =>
        /\ StopIndex = FirstExhausted
        /\ composited = 0..(StopIndex - 1)
        /\ pc \in {"save", "done"}
        /\ pc = "save" => output = None
        /\ pc = "done" => output = IF save_ok THEN Some(buf) ELSE None

\* The output is written at most once, by the save that ends the run.
WrittenOnce == [][output # None => (output' = output /\ pc = "done")]_vars

\* A measure of what is left of a run: the frames not yet processed, then
\* the steps left of the iteration.
Rank ==
    CASE pc = "open" -> 4
      [] pc = "assign" -> 3
      [] pc = "start" -> 3
      [] pc = "process" -> 2
      [] pc = "save" -> 1
      [] OTHER -> 0

Measure == 3 * (Len(paths) - i) + Rank

\* The step at the position pc has what it needs: a frame path to open, a
\* decoded frame to process, a decoding result to assign.
CanStep ==
    CASE pc = "start" -> Len(paths) >= 1
      [] pc = "open" -> i + 1 <= Len(paths)
      [] pc = "assign" -> next_img # None
      [] pc = "process" -> i + 1 <= Len(paths) /\ cur_img # None /\ buf # <<>>
      [] pc = "save" -> buf # <<>>
      [] OTHER -> FALSE

\* A step that has what it needs can be taken.
CanStepIsEnabled == CanStep => ENABLED Next

\* Every run of process_images reaches its end (under FairSpec).
Terminates == <>(pc = "done")

\* C13: every run of process_images terminates (each step lowers a measure
\* that is never negative, and a step can be taken until the run is done);
\* without decode or copy error its loop stops exactly at the first index that
\* is the length of the sequence or at which the band geometry returns no
\* band, and the output is then written, once.
C13_TerminatesAtFirstExhaustion ==
    /\ [](Measure >= 0)
    /\ [](pc # "done" => CanStep)
    /\ [][Measure' < Measure]_vars
    /\ []StopsAtFirstExhaustion
    /\ WrittenOnce

C13_Witness ==
    /\ pc = "done"
    /\ Len(paths) = 3
    /\ stop = [tag |-> "Break", index |-> 2]
    /\ copy_failed = None
    /\ composited = {0, 1}
    /\ output = Some(buf)

\* The number of decoded frame buffers that are live.
LiveFrames ==
    (IF cur_img # None THEN 1 ELSE 0)
        + (IF next_img # None /\ next_img.tag = "Ok" THEN 1 ELSE 0)

\* C14 as stated: at every point of a run at most one decoded frame buffer
\* is live, the buffer of the previous frame being discarded before the next
\* frame is decoded.
C14_OneFrameLive == LiveFrames <= 1

\* C14 amended: at most two decoded frame buffers are live, and two only
\* between the decoding of frame i and its assignment to cur_img, when cur_img
\* still holds frame i - 1; from the assignment on, while the band of frame i
\* is computed and copied, only frame i is live.
C14_PreviousFrameDroppedAfterDecode ==
    /\ LiveFrames <= 2
    /\ LiveFrames = 2 =>
          /\ pc = "assign"
          /\ i >= 1
          /\ cur_img.name = paths[i]
          /\ next_img.value.name = paths[i + 1]
    /\ pc \in {"process", "open", "save"} =>
          /\ LiveFrames = 1
          /\ next_img = None
    /\ pc = "process" => cur_img.name = paths[i + 1]

C14_Witness ==
    /\ pc = "assign"
    /\ i = 2
    /\ cur_img.name = FrameName(1)
    /\ next_img.tag = "Ok"
    /\ next_img.value.name = FrameName(2)
    /\ composited = {0, 1}

\* C15: whenever process_image has computed a band, for index i, it computed
\* it from the bounds of the output buffer (the first frame's dimensions), so
\* the band and the point of exhaustion do not depend on the dimensions of
\* the frame decoded at index i.
C15_BandFromOutputBounds ==
    bounds # <<>> =>
        /\ bounds = <<0, 0, width, height>>
        /\ band = generage_subimage_coords(<<0, 0, width, height>>, index, direction)

\* What holds of the band: it is computed from the bounds of the frame that
\* was just decoded.
BandFromFrameBounds ==
    [][pc = "process" =>
          /\ bounds' = Bounds(cur_img)
          /\ index' = i
          /\ band' = generage_subimage_coords(Bounds(cur_img), i, direction)]_vars

\* The coordinates of a rectangle <<x, y, w, h>>.
Cells(rect) ==
    (rect[1]..(rect[1] + rect[3] - 1)) \X (rect[2]..(rect[2] + rect[4] - 1))

\* The index of the frame decoded last.
LastDecoded == decoded[Len(decoded)]

\* C16: frames are decoded in increasing order from frame 0, each once; when
\* frame i+1 is decoded the band of frame i has been copied into the buffer;
\* a frame k that fails to decode ends the run with CouldNotOpenImage of its
\* path, the bands composited being exactly 0..k-1, and nothing is written.
C16_DecodeOrder ==
    /\ decoded = Counted(Len(decoded))
    /\ \A j \in 1..Len(decoded) :
          decoded[j] >= 1 => (decoded[j] - 1) \in composited
    /\ pc = "assign" =>
          /\ LastDecoded = i
          /\ band # None
          /\ \A c \in Cells(band.value) :
                /\ c \in DOMAIN buf.px
                /\ buf.px[c] = Pixel(paths[i], c[1], c[2])
    /\ (decoded # <<>> /\ ~images[paths[LastDecoded + 1]].ok) =>
          /\ pc \in {"assign", "done"}
          /\ composited = 0..(LastDecoded - 1)
          /\ output = None
          /\ pc = "done" =>
                result = Err(<<"CouldNotOpenImage", paths[LastDecoded + 1]>>)
    /\ (result # None /\ result.tag = "Err" /\ result.kind[1] = "CouldNotOpenImage") =>
          /\ decoded # <<>>
          /\ ~images[paths[LastDecoded + 1]].ok

C16_Witness ==
    /\ pc = "done"
    /\ decoded = <<0, 1, 2>>
    /\ composited = {0, 1}
    /\ result = Err(<<"CouldNotOpenImage", FrameName(2)>>)
    /\ output = None

\* C17: the progress units reported never exceed the total min(n, scan
\* limit) taken from the first frame, whatever the sizes of the frames; with
\* frames of one size an unsuppressed successful run reports exactly the
\* total; a suppressed run reports no unit, no finish and no completion.
C17_ProgressWithinTotal ==
    /\ pc \notin {"idle", "start"} => progress <= Usable
    /\ (pc = "done" /\ result.tag = "Ok" /\ SameSize /\ ~suppress_output) =>
          /\ num_frames = Usable
          /\ progress = Usable
          /\ finished
          /\ done_msg
    /\ suppress_output => (progress = 0 /\ ~finished /\ ~done_msg)

\* What holds of the progress: the total is min(n, scan limit), the units
\* are one per composited band, within the total when the frames have one
\* size, and nothing is reported when output is suppressed.
ProgressCountsBands ==
    /\ (pc \notin {"idle", "start"} /\ images[paths[1]].ok) => num_frames = Usable
    /\ progress = IF suppress_output THEN 0 ELSE Cardinality(composited)
    /\ SameSize => progress <= Usable
    /\ (pc = "done" /\ result.tag = "Ok" /\ SameSize /\ ~suppress_output) =>
          (progress = Usable /\ finished /\ done_msg)
    /\ suppress_output => (progress = 0 /\ ~finished /\ ~done_msg)

(***************************************************************************)
(* Claims about the range of get_paths and about run (SpecPaths).          *)
(***************************************************************************)
Zeros(k) == [j \in 1..k |-> "0"]

\* The decimal numeral of n, left-padded with zeros to w characters.
Padded(n, w) ==
    LET numeral == Decimal(n) IN
    (IF Len(numeral) < w THEN Zeros(w - Len(numeral)) ELSE <<>>) \o numeral

\* get_paths has parsed the mask and is at or past its loop.
RangeComputed ==
    /\ path_mode.kind = "FileMask"
    /\ parsed # None
    /\ parsed.tag = "Ok"

\* Every path collected is prefix + pad(n, width) + suffix for an index n,
\* width being digits when zero-padded and 0 otherwise.
CandidatesFormatted ==
    LET v == parsed.value
        w == IF v[2].zero_padded THEN v[2].digits ELSE 0
    IN \A k \in 1..Len(paths) :
          \E n \in 0..MaxIdx : paths[k] = v[1] \o Padded(n, w) \o v[3]

\* C18: for every digit count the parser accepts the range of candidate
\* indices is 0..10^digits - 1, its bound 10^digits being computed without
\* overflow or wrap-around in u32 (no u32 holds 10^digits for digits >= 10),
\* and each candidate is prefix + pad(i, width) + suffix.
C18_RangeIsTenToDigits ==
    RangeComputed =>
        /\ gp_result # Panic
        /\ gp_bound # None
        /\ parsed.value[2].digits <= 9
        /\ gp_bound = U32(TenTo(parsed.value[2].digits))
        /\ CandidatesFormatted

\* What holds of the range: up to 9 digits the bound is 10^digits, and the
\* candidates are formatted as stated whatever the digit count.
RangeExactUpToNineDigits ==
    RangeComputed =>
        /\ parsed.value[2].digits <= 9 =>
              /\ gp_result # Panic
              /\ gp_bound = U32(TenTo(parsed.value[2].digits))
        /\ CandidatesFormatted

\* get_paths has returned without a vector of paths.
PathsFailed == gp_pc = "done" /\ gp_result.tag # "Ok"

\* The conditions get_paths fails with, as run's caller is to see them.
ParserFailures == {"NoFileMaskFound", "MultipleFileMasks"}

WrappedFailure ==
    IF path_mode.kind = "Folder" THEN <<"CouldNotGetPaths", "Unimplemented">>
    ELSE IF parsed.tag = "Ok" THEN <<"CouldNotGetPaths", "NoFilesFound">>
    ELSE <<"CouldNotGetPaths", "CouldNotParseFilemask", path_mode.s, parsed.kind>>

\* C19: every failure of the path resolution reaches run's caller as
\* CouldNotGetPaths wrapping the condition, a parser failure wrapped in
\* CouldNotParseFilemask with the pattern; after a parser failure no file is
\* probed, and after any of these failures no frame is decoded and no output
\* written.
C19_FailuresWrapped ==
    /\ PathsFailed =>
          /\ gp_result.tag = "Err"
          /\ path_mode.kind = "FileMask" =>
                (parsed.tag = "Ok" \/ (parsed.tag = "Err" /\ parsed.kind \in ParserFailures))
          /\ pc \in {"idle", "done"}
          /\ pc = "done" => result = Err(WrappedFailure)
          /\ decoded = <<>>
          /\ output = None
    /\ (parsed # None /\ parsed.tag # "Ok") =>
          /\ PathsFailed
          /\ gp_i = 0
          /\ paths = <<>>

\* What holds of the failures: the same, for the runs of get_paths that
\* do not panic.
FailuresWrappedUnlessPanic ==
    /\ (PathsFailed /\ gp_result # Panic) =>
          /\ path_mode.kind = "FileMask" =>
                (parsed.tag = "Ok" \/ (parsed.tag = "Err" /\ parsed.kind \in ParserFailures))
          /\ pc \in {"idle", "done"}
          /\ pc = "done" => result = Err(WrappedFailure)
    /\ PathsFailed => (decoded = <<>> /\ output = None)
    /\ (parsed # None /\ parsed.tag # "Ok") =>
          /\ PathsFailed
          /\ gp_i = 0
          /\ paths = <<>>

(***************************************************************************)
(* Claims about the bands as a partition of the bounds (SpecBand).         *)
(***************************************************************************)
\* C20: for bounds of width and height >= 1 a band returned is 1 thick in
\* the scanning axis, spans the other axis, and lies inside the bounds; the
\* bands of the other valid indices are disjoint from it, and every cell of
\* the bounds lies in the band of exactly one valid index.  Coordinates are
\* integers here: a u32 underflow in by + bh - i - 1 or bx + bw - i - 1
\* would show as a negative coordinate.
C20_BandsPartition ==
    (band # Pending /\ bounds[3] >= 1 /\ bounds[4] >= 1) =>
        LET bx == bounds[1]
            by == bounds[2]
            bw == bounds[3]
            bh == bounds[4]
            dim == IF direction \in {"N", "S"} THEN bh ELSE bw
            BandOf(k) == generage_subimage_coords(bounds, k, direction)
        IN /\ band # None =>
                /\ IF direction \in {"N", "S"}
                   THEN /\ band.value[4] = 1
                        /\ band.value[1] = bx
                        /\ band.value[3] = bw
                   ELSE /\ band.value[3] = 1
                        /\ band.value[2] = by
                        /\ band.value[4] = bh
                /\ \A k \in 1..4 : band.value[k] >= 0
                /\ Cells(band.value) \subseteq Cells(bounds)
                /\ \A k \in (0..(dim - 1)) \ {index} :
                      /\ BandOf(k) # None
                      /\ Cells(BandOf(k).value) \cap Cells(band.value) = {}
           /\ \A k \in 0..(dim - 1) :
                /\ BandOf(k) # None
                /\ \A j \in 1..4 : BandOf(k).value[j] >= 0
           /\ \A c \in Cells(bounds) :
                Cardinality({k \in 0..(dim - 1) : c \in Cells(BandOf(k).value)}) = 1

C20_Witness ==
    /\ bounds = <<0, 0, 3, 2>>
    /\ direction = "E"
    /\ index = 2
    /\ band = Some(<<0, 0, 1, 2>>)

====
